---------------------------- MODULE Spec2Model ----------------------------
(***************************************************************************)
(* A model of http-proxy-nip (src/src/main.rs): the accept loop of main(), *)
(* the per-request handler proxy(), the upgrade bridge it spawns, and the  *)
(* pure helpers extract_domain and get_upgrade_type.                       *)
(*                                                                         *)
(* Strings are sequences of one-character strings, so that the regular     *)
(* expression of extract_domain and the split/trim/lowercase of            *)
(* get_upgrade_type are computed character by character.                   *)
(* Option<T> is a sequence of length 0 (None) or 1 (Some(x)).              *)
(***************************************************************************)
EXTENDS Naturals, Sequences, FiniteSets

VARIABLES
    args,        \* the Args record parsed at main.rs:165, cloned into every task
    main,        \* main(): "accepting" | "stoppedBySignal" | "stoppedByAcceptError"
    task,        \* per connection: the task spawned at main.rs:191
    pc,          \* per connection: the await proxy() is suspended at
    inbound,     \* per connection: the request as the client sent it (while handled)
    req,         \* per connection: proxy()'s `req` (headers + OnUpgrade extension)
    captured,    \* per connection: request_upgrade_type / request_upgraded (main.rs:76-77)
    out,         \* per connection: the outbound connection made for the request,
                 \*   with the request that is outstanding on it
    resp,        \* per connection: the backend's response held by proxy()
    delivered,   \* per connection: statuses of the responses written to the client
    fail,        \* per connection: the failure that hit the connection or its tunnel
    bridge,      \* per connection: the task spawned at main.rs:105
    csock,       \* per connection: who holds the client socket
    stream,      \* per connection: the bytes of the two upgraded streams
    nreq,        \* requests dispatched so far (all connections)
    nbytes,      \* payload bytes written so far (all tunnels)
    started,     \* per connection: calls of proxy() made by its codec so far
    hostArg,     \* pure-function check: the argument given to extract_domain
    hostParts,   \* pure-function check: how hostArg was put together
    extracted    \* pure-function check: what extract_domain returned

vars == << args, main, task, pc, inbound, req, captured, out, resp, delivered, fail,
           bridge, csock, stream, nreq, nbytes, started,
           hostArg, hostParts, extracted >>

proxyVars == << args, main, task, pc, inbound, req, captured, out, resp, delivered,
                fail, bridge, csock, stream, nreq, nbytes, started >>

extractVars == << hostArg, hostParts, extracted >>

---------------------------------------------------------------------------
(* Bounds of the model *)

\* connections the accept loop takes in one run
MaxConns == 2
\* requests dispatched in one run, over all connections
MaxReqs == 2
\* payload bytes written into tunnels in one run
MaxBytes == 3
\* length of the label part of a generated Host value
MaxLabelLen == 4

---------------------------------------------------------------------------
(* Option<T> *)

None == << >>
Some(x) == << x >>
IsSome(o) == Len(o) = 1
Unwrap(o) == o[1]

---------------------------------------------------------------------------
(* Characters *)

LowerLetters == << "a","b","c","d","e","f","g","h","i","j","k","l","m",
                   "n","o","p","q","r","s","t","u","v","w","x","y","z" >>
UpperLetters == << "A","B","C","D","E","F","G","H","I","J","K","L","M",
                   "N","O","P","Q","R","S","T","U","V","W","X","Y","Z" >>
Digits == { "0","1","2","3","4","5","6","7","8","9" }
Range(s) == { s[i] : i \in 1..Len(s) }
\* [a-zA-Z0-9]
AlNum == Range(LowerLetters) \cup Range(UpperLetters) \cup Digits
\* [a-zA-Z0-9-]
AlNumHyphen == AlNum \cup { "-" }

AllIn(s, lo, hi, class) == \A i \in lo..hi : s[i] \in class

---------------------------------------------------------------------------
(* extract_domain, main.rs:45-54.  The pattern is                          *)
(*   ^(?<domain>([a-zA-Z0-9][a-zA-Z0-9-]*[a-zA-Z0-9]*\.)+)                  *)
(*    ([0-9]{1,3}\.){4}nip\.io(:[0-9]+)?$                                   *)

\* [a-zA-Z0-9][a-zA-Z0-9-]*[a-zA-Z0-9]*\.  : one label and its dot
MatchLabel(t) ==
    /\ Len(t) >= 2
    /\ t[1] \in AlNum
    /\ t[Len(t)] = "."
    /\ \E m \in 1..(Len(t) - 1) :
          /\ AllIn(t, 2, m, AlNumHyphen)
          /\ AllIn(t, m + 1, Len(t) - 1, AlNum)

\* ( label \. )+
RECURSIVE MatchDomain(_)
MatchDomain(d) ==
    \E j \in 1..Len(d) :
        /\ MatchLabel(SubSeq(d, 1, j))
        /\ \/ j = Len(d)
           \/ MatchDomain(SubSeq(d, j + 1, Len(d)))

\* ([0-9]{1,3}\.){n}
RECURSIVE MatchQuads(_, _)
MatchQuads(q, n) ==
    IF n = 0 THEN q = << >>
    ELSE \E j \in 2..4 :
            /\ j <= Len(q)
            /\ AllIn(q, 1, j - 1, Digits)
            /\ q[j] = "."
            /\ MatchQuads(SubSeq(q, j + 1, Len(q)), n - 1)

NipIo == << "n","i","p",".","i","o" >>

\* (:[0-9]+)?$
MatchPort(p) ==
    \/ p = << >>
    \/ /\ Len(p) >= 2
       /\ p[1] = ":"
       /\ AllIn(p, 2, Len(p), Digits)

\* ([0-9]{1,3}\.){4}nip\.io(:[0-9]+)?$
MatchTail(r) ==
    \E a \in 0..Len(r) :
        /\ a + Len(NipIo) <= Len(r)
        /\ SubSeq(r, a + 1, a + Len(NipIo)) = NipIo
        /\ MatchQuads(SubSeq(r, 1, a), 4)
        /\ MatchPort(SubSeq(r, a + Len(NipIo) + 1, Len(r)))

\* the ends of the domain group in the matches of the whole pattern
DomainEnds(s) ==
    { k \in 1..Len(s) :
        /\ MatchTail(SubSeq(s, k + 1, Len(s)))
        /\ MatchDomain(SubSeq(s, 1, k)) }

\* the drop-the-last-dot slip a capture group placed inside the dot would make
extract_domain_nodot(s) ==
    IF DomainEnds(s) = {} THEN None
    ELSE LET k == CHOOSE x \in DomainEnds(s) : \A y \in DomainEnds(s) : y <= x
         IN  Some(SubSeq(s, 1, k - 1))

\* main.rs:45-54: the domain group of the match, or None
extract_domain(s) ==
    IF DomainEnds(s) = {} THEN None
    ELSE \* the + is greedy: the match the regex reports takes the most labels
         LET k == CHOOSE x \in DomainEnds(s) : \A y \in DomainEnds(s) : y <= x
         IN  Some(SubSeq(s, 1, k))

---------------------------------------------------------------------------
(* String helpers used by get_upgrade_type *)

\* str::split(ch): the pieces of s between the occurrences of ch
RECURSIVE SplitOn(_, _)
SplitOn(s, ch) ==
    IF \A i \in 1..Len(s) : s[i] # ch THEN << s >>
    ELSE LET i == CHOOSE x \in 1..Len(s) :
                      s[x] = ch /\ \A y \in 1..(x - 1) : s[y] # ch
         IN  << SubSeq(s, 1, i - 1) >> \o SplitOn(SubSeq(s, i + 1, Len(s)), ch)

Whitespace == { " ", "\t" }

\* str::trim(): leading and trailing whitespace removed
RECURSIVE Trim(_)
Trim(s) ==
    IF s = << >> THEN s
    ELSE IF s[1] \in Whitespace THEN Trim(Tail(s))
    ELSE IF s[Len(s)] \in Whitespace THEN Trim(SubSeq(s, 1, Len(s) - 1))
    ELSE s

LowerChar(ch) ==
    IF ch \in Range(UpperLetters)
    THEN LowerLetters[CHOOSE i \in 1..Len(UpperLetters) : UpperLetters[i] = ch]
    ELSE ch

\* str::to_lowercase()
ToLower(s) == [ i \in 1..Len(s) |-> LowerChar(s[i]) ]

UpgradeToken == << "u","p","g","r","a","d","e" >>

\* main.rs:134-143: the Connection header is there and one of its
\* comma-separated tokens, trimmed and lowercased, is "upgrade"
HasUpgradeToken(connection) ==
    /\ IsSome(connection)
    /\ LET tokens == SplitOn(Unwrap(connection), ",")
       IN  \E i \in 1..Len(tokens) : ToLower(Trim(tokens[i])) = UpgradeToken

\* main.rs:132-156.  headers.connection, headers.upgrade : Option<value>
get_upgrade_type(headers) ==
    IF HasUpgradeToken(headers.connection)
    THEN IF IsSome(headers.upgrade) THEN Some(Unwrap(headers.upgrade)) ELSE None
    ELSE None

---------------------------------------------------------------------------
(* Inputs of the pure-function check of extract_domain: a Host value put   *)
(* together from a label part, a dotted-quad part, a suffix and a port.    *)

LabelChars == { "a", "1", "-", "." }

RECURSIVE SeqsUpTo(_, _)
SeqsUpTo(S, n) ==
    IF n = 0 THEN { << >> }
    ELSE LET shorter == SeqsUpTo(S, n - 1)
         IN  shorter \cup { Append(t, x) : t \in shorter, x \in S }

LabelInputs == SeqsUpTo(LabelChars, MaxLabelLen)

QuadInputs ==
    { << "1","9","2",".","1","6","8",".","1",".","1","." >>,
      << "1",".","2",".","3","." >>,
      << "1","2","3","4",".","1",".","1",".","1","." >>,
      << >> }

SuffixInputs ==
    { NipIo,
      << "n","i","p",".","c","o","m" >>,
      << "n","i","p","x","i","o" >> }

PortInputs ==
    { << >>,
      << ":","8","8","8","8" >>,
      << ":","8","a" >>,
      << ":" >> }

HostPartsInputs ==
    [ labels : LabelInputs, quad : QuadInputs, suffix : SuffixInputs,
      port : PortInputs ]

Assemble(p) == p.labels \o p.quad \o p.suffix \o p.port

NoParts == [ labels |-> << >>, quad |-> << >>, suffix |-> << >>, port |-> << >> ]
NotExtracted == [ done |-> FALSE, value |-> None ]

\* the call at main.rs:53 / main.rs:60 on the generated value
ExtractDomain ==
    /\ ~extracted.done
    /\ extracted' = [ done |-> TRUE, value |-> extract_domain(hostArg) ]
    /\ UNCHANGED << hostArg, hostParts, proxyVars >>

---------------------------------------------------------------------------
(* Configuration and the requests and responses the environment produces *)

Conns == 1..MaxConns
Bytes == { 0, 1 }

\* StatusCode::SWITCHING_PROTOCOLS
SWITCHING_PROTOCOLS == 101

\* Args, main.rs:28-43: the default domain suffix and another one
DefaultArgs ==
    [ backend_host |-> "localhost", backend_port |-> 80,
      domain_suffix |-> << "l","o","c","a","l","h","o","s","t" >> ]

ArgsInputs ==
    { DefaultArgs,
      [ DefaultArgs EXCEPT !.domain_suffix = << "i","n","t","e","r","n","a","l" >> ] }

HostFoo ==
    << "f","o","o",".","1","9","2",".","1","6","8",".","1",".","1",".",
       "n","i","p",".","i","o" >>
HostTenantPort ==
    << "t","e","n","a","n","t",".","1",".","2",".","3",".","4",".",
       "n","i","p",".","i","o",":","8","1","0","0" >>
HostPlain == << "e","x","a","m","p","l","e",".","c","o","m" >>

ConnKeepAlive == << "k","e","e","p","-","a","l","i","v","e" >>
ConnUpgrade ==
    << "k","e","e","p","-","a","l","i","v","e",","," ","U","p","g","r","a","d","e" >>

\* An inbound request as hyper's server codec hands it to the service:
\* its Host values in order, its Connection and Upgrade headers, and whether
\* the codec attached an OnUpgrade extension to it.
Requests ==
    { \* no Host header at all
      [ host |-> << >>, connection |-> None, upgrade |-> None,
        onUpgrade |-> FALSE ],
      \* a Host outside the wildcard pattern
      [ host |-> << HostPlain >>, connection |-> Some(ConnKeepAlive),
        upgrade |-> None, onUpgrade |-> FALSE ],
      \* a plain request
      [ host |-> << HostFoo >>, connection |-> None, upgrade |-> None,
        onUpgrade |-> FALSE ],
      \* a websocket offer, sent with two Host headers
      [ host |-> << HostTenantPort, HostPlain >>,
        connection |-> Some(ConnUpgrade), upgrade |-> Some("websocket"),
        onUpgrade |-> TRUE ],
      \* an Upgrade header without the upgrade token in Connection
      [ host |-> << HostFoo >>, connection |-> Some(ConnKeepAlive),
        upgrade |-> Some("websocket"), onUpgrade |-> TRUE ],
      \* an offer the codec attached no OnUpgrade to (an HTTP/1.0 request)
      [ host |-> << HostFoo >>, connection |-> Some(ConnUpgrade),
        upgrade |-> Some("websocket"), onUpgrade |-> FALSE ] }

\* What the backend may answer
Responses ==
    { [ status |-> 200, connection |-> None, upgrade |-> None ],
      [ status |-> SWITCHING_PROTOCOLS, connection |-> Some(ConnUpgrade),
        upgrade |-> Some("websocket") ],
      [ status |-> SWITCHING_PROTOCOLS, connection |-> Some(ConnUpgrade),
        upgrade |-> Some("h2c") ],
      [ status |-> SWITCHING_PROTOCOLS, connection |-> None,
        upgrade |-> None ] }

\* the Connection and Upgrade headers of a request or a response
Headers(x) == [ connection |-> x.connection, upgrade |-> x.upgrade ]

\* get_upgrade_type on the headers of each request and response above
UpgradeType ==
    [ h \in { Headers(x) : x \in Requests } \cup { Headers(x) : x \in Responses }
        |-> get_upgrade_type(h) ]

NoOut == [ conn |-> "none", id |-> None, to |-> None, sent |-> None ]
NoDir == [ wrote |-> << >>, pending |-> << >>, got |-> << >>,
           eof |-> FALSE, copy |-> "idle" ]
\* c2b: client to backend (b_to_a of copy_bidirectional(&mut a, &mut b));
\* b2c: backend to client (a_to_b)
NoStream == [ c2b |-> NoDir, b2c |-> NoDir ]

Running == main = "accepting"

\* main() up to the first accept(), main.rs:159-180
InitProxy ==
    /\ main = "accepting"
    /\ task = [ c \in Conns |-> "none" ]
    /\ pc = [ c \in Conns |-> "idle" ]
    /\ inbound = [ c \in Conns |-> None ]
    /\ req = [ c \in Conns |-> None ]
    /\ captured = [ c \in Conns |-> None ]
    /\ out = [ c \in Conns |-> NoOut ]
    /\ resp = [ c \in Conns |-> None ]
    /\ delivered = [ c \in Conns |-> << >> ]
    /\ fail = [ c \in Conns |-> "none" ]
    /\ bridge = [ c \in Conns |-> "none" ]
    /\ csock = [ c \in Conns |-> "none" ]
    /\ stream = [ c \in Conns |-> NoStream ]
    /\ nreq = 0
    /\ nbytes = 0
    /\ started = [ c \in Conns |-> 0 ]

Init ==
    /\ InitProxy
    /\ args = DefaultArgs
    /\ hostArg = << >>
    /\ hostParts = NoParts
    /\ extracted = NotExtracted

---------------------------------------------------------------------------
(* main(), main.rs:158-215 *)

\* an accept loop that serves the connection itself before it accepts again
Accept_inline(c) ==
    /\ Running
    /\ task[c] = "none"
    /\ \A d \in Conns : d < c => task[d] # "none"
    /\ \A d \in Conns : task[d] # "serving" /\ bridge[d] \notin { "waiting", "copying" }
    /\ task' = [ task EXCEPT ![c] = "serving" ]
    /\ csock' = [ csock EXCEPT ![c] = "codec" ]
    /\ UNCHANGED << extractVars, args, main, pc, inbound, req, captured, out, resp,
                    delivered, fail, bridge, stream, nreq, nbytes, started >>

\* an accept loop that goes on after main() has left select!
Accept_afterStop(c) ==
    /\ task[c] \in { "none", "dropped" }
    /\ \A d \in Conns : d < c => task[d] \notin { "none", "dropped" }
    /\ task' = [ task EXCEPT ![c] = "serving" ]
    /\ csock' = [ csock EXCEPT ![c] = "codec" ]
    /\ UNCHANGED << extractVars, args, main, pc, inbound, req, captured, out, resp,
                    delivered, fail, bridge, stream, nreq, nbytes, started >>

\* main.rs:180-205: accept() returns a socket and a task is spawned for it.
\* Connections are numbered in the order they are accepted.
Accept(c) ==
    /\ Running
    /\ task[c] = "none"
    /\ \A d \in Conns : d < c => task[d] # "none"
    /\ task' = [ task EXCEPT ![c] = "serving" ]
    /\ csock' = [ csock EXCEPT ![c] = "codec" ]
    /\ UNCHANGED << extractVars, args, main, pc, inbound, req, captured, out, resp,
                    delivered, fail, bridge, stream, nreq, nbytes, started >>

\* main.rs:214: main returns Ok(()) and the process ends: the runtime is
\* dropped with every task in it, and nothing of the run is left
Return(how) ==
    /\ main' = how
    /\ task' = [ c \in Conns |-> "dropped" ]
    /\ pc' = [ c \in Conns |-> "idle" ]
    /\ inbound' = [ c \in Conns |-> None ]
    /\ req' = [ c \in Conns |-> None ]
    /\ captured' = [ c \in Conns |-> None ]
    /\ out' = [ c \in Conns |-> NoOut ]
    /\ resp' = [ c \in Conns |-> None ]
    /\ delivered' = [ c \in Conns |-> << >> ]
    /\ fail' = [ c \in Conns |-> "none" ]
    /\ bridge' = [ c \in Conns |-> "dropped" ]
    /\ csock' = [ c \in Conns |-> "closed" ]
    /\ stream' = [ c \in Conns |-> NoStream ]
    /\ nreq' = 0
    /\ nbytes' = 0
    /\ started' = [ c \in Conns |-> 0 ]

\* an accept loop that unwraps what accept() returns
AcceptError_panic ==
    /\ Running
    /\ Return("panicked")
    /\ UNCHANGED << extractVars, args >>

\* main.rs:182-185: accept() fails, the loop breaks, select! completes and
\* main returns Ok(()); the runtime is dropped with every task in it.
AcceptError ==
    /\ Running
    /\ Return("stoppedByAcceptError")
    /\ UNCHANGED << extractVars, args >>

\* main.rs:209-211: a signal branch of select! completes and main returns
Signal ==
    /\ Running
    /\ Return("stoppedBySignal")
    /\ UNCHANGED << extractVars, args >>

---------------------------------------------------------------------------
(* How a connection task ends early *)

\* a panic that takes the whole process down (panic = "abort")
Crash_abort(c, why) ==
    /\ main' = "aborted"
    /\ task' = [ task EXCEPT ![c] = "panicked" ]
    /\ fail' = [ fail EXCEPT ![c] = why ]
    /\ csock' = [ csock EXCEPT ![c] = "closed" ]
    /\ pc' = [ pc EXCEPT ![c] = "idle" ]
    /\ inbound' = [ inbound EXCEPT ![c] = None ]
    /\ req' = [ req EXCEPT ![c] = None ]
    /\ captured' = [ captured EXCEPT ![c] = None ]
    /\ out' = [ out EXCEPT ![c] = NoOut ]
    /\ resp' = [ resp EXCEPT ![c] = None ]

\* An unwrap()/expect() inside proxy() panics (main.rs:60, 68, 72).  The
\* panic unwinds the task spawned at main.rs:191 and stops there: the runtime
\* catches it, the future is dropped with the sockets it owns, and main()
\* is not touched.
Crash(c, why) ==
    /\ main' = main
    /\ task' = [ task EXCEPT ![c] = "panicked" ]
    /\ fail' = [ fail EXCEPT ![c] = why ]
    /\ csock' = [ csock EXCEPT ![c] = "closed" ]
    /\ pc' = [ pc EXCEPT ![c] = "idle" ]
    /\ inbound' = [ inbound EXCEPT ![c] = None ]
    /\ req' = [ req EXCEPT ![c] = None ]
    /\ captured' = [ captured EXCEPT ![c] = None ]
    /\ out' = [ out EXCEPT ![c] = NoOut ]
    /\ resp' = [ resp EXCEPT ![c] = None ]

\* A `?` in proxy() (main.rs:83, 90, 101) returns Err(hyper::Error) to the
\* service; serve_connection ends with that error, main.rs:202-204 prints it
\* and the task ends.  No response is written.
ReturnErr(c, why) ==
    /\ main' = main
    /\ task' = [ task EXCEPT ![c] = "failed" ]
    /\ fail' = [ fail EXCEPT ![c] = why ]
    /\ csock' = [ csock EXCEPT ![c] = "closed" ]
    /\ pc' = [ pc EXCEPT ![c] = "idle" ]
    /\ inbound' = [ inbound EXCEPT ![c] = None ]
    /\ req' = [ req EXCEPT ![c] = None ]
    /\ captured' = [ captured EXCEPT ![c] = None ]
    /\ out' = [ out EXCEPT ![c] = NoOut ]
    /\ resp' = [ resp EXCEPT ![c] = None ]

---------------------------------------------------------------------------
(* proxy(), main.rs:56-130: one action per await *)

\* HeaderMap::index("host"): the first value; panics when there is none
FirstHost(r) == IF r.host = << >> THEN None ELSE Some(r.host[1])

\* main.rs:60: None stands for the panic of either unwrap
MatchedPrefix(r) ==
    IF FirstHost(r) = None THEN None ELSE extract_domain(Unwrap(FirstHost(r)))

\* a rewrite that leaves the other Host values in place
RewriteHost_append(r, suffix) ==
    [ r EXCEPT !.host = << Unwrap(MatchedPrefix(r)) \o suffix >> \o Tail(r.host) ]

\* main.rs:61-68: format!("{}{}"), remove("host") (every value), insert
RewriteHost(r, suffix) ==
    [ r EXCEPT !.host = << Unwrap(MatchedPrefix(r)) \o suffix >> ]

\* main.rs:60-68 on each request of Requests, under each configuration
Routed ==
    [ r \in Requests |->
        [ prefix |-> MatchedPrefix(r),
          rewritten |->
            [ suffix \in { a.domain_suffix : a \in ArgsInputs } |->
                IF MatchedPrefix(r) = None THEN r ELSE RewriteHost(r, suffix) ] ] ]

\* a codec that calls the service for the next request of the connection
\* while the previous call is still running
Dispatch_pipelined(c, r) ==
    /\ Running
    /\ task[c] = "serving"
    /\ nreq < MaxReqs
    /\ nreq' = nreq + 1
    /\ started' = [ started EXCEPT ![c] = @ + 1 ]
    /\ IF Routed[r].prefix = None
       THEN Crash(c, "host")
       ELSE /\ inbound' = [ inbound EXCEPT ![c] = Some(r) ]
            /\ req' = [ req EXCEPT ![c] = Some(Routed[r].rewritten[args.domain_suffix]) ]
            /\ pc' = [ pc EXCEPT ![c] = "connect" ]
            /\ UNCHANGED << main, task, captured, out, resp, fail, csock >>
    /\ UNCHANGED << extractVars, args, delivered, bridge, stream, nbytes >>

\* The codec reads a request off connection c and calls the service:
\* proxy() runs from main.rs:60 to the await of connect at main.rs:70-71.
Dispatch(c, r) ==
    /\ Running
    /\ task[c] = "serving"
    /\ pc[c] = "idle"
    /\ nreq < MaxReqs
    /\ nreq' = nreq + 1
    /\ started' = [ started EXCEPT ![c] = @ + 1 ]
    /\ IF Routed[r].prefix = None
       THEN Crash(c, "host")
       ELSE /\ inbound' = [ inbound EXCEPT ![c] = Some(r) ]
            /\ req' = [ req EXCEPT ![c] = Some(Routed[r].rewritten[args.domain_suffix]) ]
            /\ pc' = [ pc EXCEPT ![c] = "connect" ]
            /\ UNCHANGED << main, task, captured, out, resp, fail, csock >>
    /\ UNCHANGED << extractVars, args, delivered, bridge, stream, nbytes >>

\* a connect that takes the backend connection the first request opened
\* from a pool
ConnectOk_pooled(c) ==
    /\ Running
    /\ pc[c] = "connect"
    /\ out' = [ out EXCEPT ![c] =
                  [ conn |-> "connected",
                    id |-> << 1, 1 >>,
                    to |-> Some(<< args.backend_host, args.backend_port >>),
                    sent |-> None ] ]
    /\ captured' = [ captured EXCEPT ![c] =
                  Some([ request_upgrade_type |-> UpgradeType[Headers(Unwrap(req[c]))],
                         request_upgraded |-> Unwrap(req[c]).onUpgrade ]) ]
    /\ req' = [ req EXCEPT ![c] = Some([ Unwrap(req[c]) EXCEPT !.onUpgrade = FALSE ]) ]
    /\ pc' = [ pc EXCEPT ![c] = "handshake" ]
    /\ UNCHANGED << extractVars, args, main, task, inbound, resp, delivered, fail, bridge,
                    csock, stream, nreq, nbytes, started >>

\* a handler that looks for the offer and the OnUpgrade only when the
\* request has gone to the sender, and finds neither
ConnectOk_captureLate(c) ==
    /\ Running
    /\ pc[c] = "connect"
    /\ out' = [ out EXCEPT ![c] =
                  [ conn |-> "connected",
                    id |-> << c, started[c] >>,
                    to |-> Some(<< args.backend_host, args.backend_port >>),
                    sent |-> None ] ]
    /\ captured' = [ captured EXCEPT ![c] =
                  Some([ request_upgrade_type |-> None, request_upgraded |-> FALSE ]) ]
    /\ pc' = [ pc EXCEPT ![c] = "handshake" ]
    /\ UNCHANGED << extractVars, args, main, task, inbound, req, resp, delivered, fail,
                    bridge, csock, stream, nreq, nbytes, started >>

\* main.rs:70-77: connect succeeds and gives a socket of its own to the
\* request, named after it (connection, ordinal); the upgrade offer and the OnUpgrade extension are taken from the
\* request; handshake starts (main.rs:79-83)
ConnectOk(c) ==
    /\ Running
    /\ pc[c] = "connect"
    /\ out' = [ out EXCEPT ![c] =
                  [ conn |-> "connected",
                    id |-> << c, started[c] >>,
                    to |-> Some(<< args.backend_host, args.backend_port >>),
                    sent |-> None ] ]
    /\ captured' = [ captured EXCEPT ![c] =
                  Some([ request_upgrade_type |-> UpgradeType[Headers(Unwrap(req[c]))],
                         request_upgraded |-> Unwrap(req[c]).onUpgrade ]) ]
    /\ req' = [ req EXCEPT ![c] = Some([ Unwrap(req[c]) EXCEPT !.onUpgrade = FALSE ]) ]
    /\ pc' = [ pc EXCEPT ![c] = "handshake" ]
    /\ UNCHANGED << extractVars, args, main, task, inbound, resp, delivered, fail, bridge,
                    csock, stream, nreq, nbytes, started >>

\* main.rs:70-72: connect fails and unwrap() panics
ConnectFail(c) ==
    /\ Running
    /\ pc[c] = "connect"
    /\ Crash(c, "connect")
    /\ UNCHANGED << extractVars, args, delivered, bridge, stream, nreq, nbytes, started >>

\* main.rs:79-90: the handshake succeeds, the connection driver is spawned
\* and the request is given to the sender
HandshakeOk(c) ==
    /\ Running
    /\ pc[c] = "handshake"
    /\ out' = [ out EXCEPT ![c].conn = "driven", ![c].sent = req[c] ]
    /\ pc' = [ pc EXCEPT ![c] = "send" ]
    /\ UNCHANGED << extractVars, args, main, task, inbound, req, captured, resp, delivered,
                    fail, bridge, csock, stream, nreq, nbytes, started >>

\* main.rs:83: the handshake fails
HandshakeFail(c) ==
    /\ Running
    /\ pc[c] = "handshake"
    /\ ReturnErr(c, "handshake")
    /\ UNCHANGED << extractVars, args, delivered, bridge, stream, nreq, nbytes, started >>

\* main.rs:92-96: the three nested tests that lead to the bridge
UpgradeAgreed(cap, rsp) ==
    /\ rsp.status = SWITCHING_PROTOCOLS
    /\ cap.request_upgrade_type = UpgradeType[Headers(rsp)]
    /\ cap.request_upgraded

\* a handler that awaits the backend's handoff on every 101
SendOk_awaitAny101(c, rsp) ==
    /\ Running
    /\ pc[c] = "send"
    /\ resp' = [ resp EXCEPT ![c] = Some(rsp) ]
    /\ out' = [ out EXCEPT ![c].sent = None ]
    /\ IF rsp.status = SWITCHING_PROTOCOLS
       THEN pc' = [ pc EXCEPT ![c] = "upgrade" ]
       ELSE pc' = [ pc EXCEPT ![c] = "respond" ]
    /\ UNCHANGED << extractVars, args, main, task, inbound, req, captured, delivered,
                    fail, bridge, csock, stream, nreq, nbytes, started >>

\* main.rs:90-101, 116-129: the response arrives.  With an agreed upgrade
\* proxy() goes on to await the backend's OnUpgrade; otherwise it logs (101)
\* or not, and returns the response as it is.
SendOk(c, rsp) ==
    /\ Running
    /\ pc[c] = "send"
    /\ resp' = [ resp EXCEPT ![c] = Some(rsp) ]
    /\ out' = [ out EXCEPT ![c].sent = None ]
    /\ IF UpgradeAgreed(Unwrap(captured[c]), rsp)
       THEN pc' = [ pc EXCEPT ![c] = "upgrade" ]
       ELSE pc' = [ pc EXCEPT ![c] = "respond" ]
    /\ UNCHANGED << extractVars, args, main, task, inbound, req, captured, delivered,
                    fail, bridge, csock, stream, nreq, nbytes, started >>

\* main.rs:90: sending the request or reading the response fails
SendFail(c) ==
    /\ Running
    /\ pc[c] = "send"
    /\ ReturnErr(c, "send")
    /\ UNCHANGED << extractVars, args, delivered, bridge, stream, nreq, nbytes, started >>

\* main.rs:97-129: the backend's stream is handed over; the bridge task is
\* spawned and proxy() returns the 101
UpgradeOk(c) ==
    /\ Running
    /\ pc[c] = "upgrade"
    /\ bridge' = [ bridge EXCEPT ![c] = "waiting" ]
    /\ out' = [ out EXCEPT ![c].conn = "upgraded" ]
    /\ pc' = [ pc EXCEPT ![c] = "respond" ]
    /\ UNCHANGED << extractVars, args, main, task, inbound, req, captured, resp, delivered,
                    fail, csock, stream, nreq, nbytes, started >>

\* a handler that returns the 101 although the backend's handoff failed
UpgradeFail_forward101(c) ==
    /\ Running
    /\ pc[c] = "upgrade"
    /\ pc' = [ pc EXCEPT ![c] = "respond" ]
    /\ UNCHANGED << extractVars, args, main, task, inbound, req, captured, out, resp,
                    delivered, fail, bridge, csock, stream, nreq, nbytes, started >>

\* main.rs:101: the backend's handoff fails
UpgradeFail(c) ==
    /\ Running
    /\ pc[c] = "upgrade"
    /\ ReturnErr(c, "upgrade")
    /\ UNCHANGED << extractVars, args, delivered, bridge, stream, nreq, nbytes, started >>

\* a codec that goes on reading requests after it has written a 101
Respond_keepServing(c) ==
    /\ Running
    /\ pc[c] = "respond"
    /\ delivered' = [ delivered EXCEPT ![c] = Append(@, Unwrap(resp[c]).status) ]
    /\ pc' = [ pc EXCEPT ![c] = "idle" ]
    /\ inbound' = [ inbound EXCEPT ![c] = None ]
    /\ req' = [ req EXCEPT ![c] = None ]
    /\ captured' = [ captured EXCEPT ![c] = None ]
    /\ resp' = [ resp EXCEPT ![c] = None ]
    /\ IF Unwrap(resp[c]).status = SWITCHING_PROTOCOLS /\ bridge[c] = "waiting"
       THEN /\ csock' = [ csock EXCEPT ![c] = "handoff" ]
            /\ out' = out
       ELSE /\ out' = [ out EXCEPT ![c] = NoOut ]
            /\ csock' = csock
    /\ UNCHANGED << extractVars, args, main, task, fail, bridge, stream, nreq, nbytes,
                    started >>

\* main.rs:197-201: the codec writes the response proxy() returned.  A 101
\* ends HTTP on the connection: serve_connection(..).with_upgrades() gives
\* the socket to the OnUpgrade taken at main.rs:77 and completes; when nobody
\* holds that OnUpgrade any more the socket is closed.  After any other
\* response the codec waits for the next request.
Respond(c) ==
    /\ Running
    /\ pc[c] = "respond"
    /\ delivered' = [ delivered EXCEPT ![c] = Append(@, Unwrap(resp[c]).status) ]
    /\ pc' = [ pc EXCEPT ![c] = "idle" ]
    /\ inbound' = [ inbound EXCEPT ![c] = None ]
    /\ req' = [ req EXCEPT ![c] = None ]
    /\ captured' = [ captured EXCEPT ![c] = None ]
    /\ resp' = [ resp EXCEPT ![c] = None ]
    /\ IF Unwrap(resp[c]).status = SWITCHING_PROTOCOLS
       THEN /\ task' = [ task EXCEPT ![c] = "done" ]
            /\ IF bridge[c] = "waiting"
               THEN /\ csock' = [ csock EXCEPT ![c] = "handoff" ]
                    /\ out' = out
               ELSE /\ csock' = [ csock EXCEPT ![c] = "closed" ]
                    /\ out' = [ out EXCEPT ![c] = NoOut ]
       ELSE /\ out' = [ out EXCEPT ![c] = NoOut ]
            /\ UNCHANGED << task, csock >>
    /\ UNCHANGED << extractVars, args, main, fail, bridge, stream, nreq, nbytes, started >>

\* main.rs:202-204: writing the response fails (the client went away);
\* serve_connection ends with an error, which is printed
RespondFail(c) ==
    /\ Running
    /\ pc[c] = "respond"
    /\ task' = [ task EXCEPT ![c] = "failed" ]
    /\ fail' = [ fail EXCEPT ![c] = "client" ]
    /\ csock' = [ csock EXCEPT ![c] = "closed" ]
    /\ pc' = [ pc EXCEPT ![c] = "idle" ]
    /\ inbound' = [ inbound EXCEPT ![c] = None ]
    /\ req' = [ req EXCEPT ![c] = None ]
    /\ captured' = [ captured EXCEPT ![c] = None ]
    /\ resp' = [ resp EXCEPT ![c] = None ]
    /\ out' = [ out EXCEPT ![c] = IF bridge[c] = "waiting" THEN @ ELSE NoOut ]
    /\ UNCHANGED << extractVars, args, main, delivered, bridge, stream, nreq, nbytes, started >>

\* main.rs:197-201: the client closes a connection that has no request in
\* flight; serve_connection completes
Close(c) ==
    /\ Running
    /\ task[c] = "serving"
    /\ pc[c] = "idle"
    /\ task' = [ task EXCEPT ![c] = "done" ]
    /\ csock' = [ csock EXCEPT ![c] = "closed" ]
    /\ UNCHANGED << extractVars, args, main, pc, inbound, req, captured, out, resp,
                    delivered, fail, bridge, stream, nreq, nbytes, started >>

---------------------------------------------------------------------------
(* The bridge task, main.rs:105-115 *)

\* a bridge that starts to copy without the client's handoff
BridgeStart_early(c) ==
    /\ Running
    /\ bridge[c] = "waiting"
    /\ bridge' = [ bridge EXCEPT ![c] = "copying" ]
    /\ stream' = [ stream EXCEPT ![c].c2b.copy = "copying", ![c].b2c.copy = "copying" ]
    /\ UNCHANGED << extractVars, args, main, task, pc, inbound, req, captured, out,
                    resp, delivered, fail, csock, nreq, nbytes, started >>

\* main.rs:106-110: the client's handoff completes; copying starts
BridgeStart(c) ==
    /\ Running
    /\ bridge[c] = "waiting"
    /\ csock[c] = "handoff"
    /\ bridge' = [ bridge EXCEPT ![c] = "copying" ]
    /\ csock' = [ csock EXCEPT ![c] = "bridge" ]
    /\ stream' = [ stream EXCEPT ![c].c2b.copy = "copying", ![c].b2c.copy = "copying" ]
    /\ UNCHANGED << extractVars, args, main, task, pc, inbound, req, captured, out,
                    resp, delivered, fail, nreq, nbytes, started >>

\* main.rs:106-107: the client's handoff fails and expect() panics; the
\* panic ends the bridge task, which drops the backend's stream
BridgeHandoffFail(c) ==
    /\ Running
    /\ bridge[c] = "waiting"
    /\ csock[c] = "closed"
    /\ bridge' = [ bridge EXCEPT ![c] = "panicked" ]
    /\ out' = [ out EXCEPT ![c] = NoOut ]
    /\ stream' = [ stream EXCEPT ![c] = NoStream ]
    /\ UNCHANGED << extractVars, args, main, task, pc, inbound, req, captured, resp,
                    delivered, fail, csock, nreq, nbytes, started >>

\* the client writes a byte on its side of the tunnel
ClientWrite(c, b) ==
    /\ Running
    /\ csock[c] \in { "handoff", "bridge" }
    /\ ~stream[c].c2b.eof
    /\ nbytes < MaxBytes
    /\ nbytes' = nbytes + 1
    /\ stream' = [ stream EXCEPT ![c].c2b.wrote = Append(@, b),
                                 ![c].c2b.pending = Append(@, b) ]
    /\ UNCHANGED << extractVars, args, main, task, pc, inbound, req, captured, out,
                    resp, delivered, fail, bridge, csock, nreq, started >>

\* the backend writes a byte on its side of the tunnel
BackendWrite(c, b) ==
    /\ Running
    /\ bridge[c] \in { "waiting", "copying" }
    /\ ~stream[c].b2c.eof
    /\ nbytes < MaxBytes
    /\ nbytes' = nbytes + 1
    /\ stream' = [ stream EXCEPT ![c].b2c.wrote = Append(@, b),
                                 ![c].b2c.pending = Append(@, b) ]
    /\ UNCHANGED << extractVars, args, main, task, pc, inbound, req, captured, out,
                    resp, delivered, fail, bridge, csock, nreq, started >>

\* the client shuts down its writing side
ClientShutdown(c) ==
    /\ Running
    /\ csock[c] = "bridge"
    /\ ~stream[c].c2b.eof
    /\ stream' = [ stream EXCEPT ![c].c2b.eof = TRUE ]
    /\ UNCHANGED << extractVars, args, main, task, pc, inbound, req, captured, out,
                    resp, delivered, fail, bridge, csock, nreq, nbytes, started >>

\* the backend shuts down its writing side
BackendShutdown(c) ==
    /\ Running
    /\ bridge[c] = "copying"
    /\ ~stream[c].b2c.eof
    /\ stream' = [ stream EXCEPT ![c].b2c.eof = TRUE ]
    /\ UNCHANGED << extractVars, args, main, task, pc, inbound, req, captured, out,
                    resp, delivered, fail, bridge, csock, nreq, nbytes, started >>

\* tokio_io::TokioIo (main.rs:109-110): the adapter hands a read of the
\* wrapped stream through, byte for byte
TokioIoRead(data, k) == SubSeq(data, 1, k)

\* a copy that loses the first byte of what it read
Transfer_drop(d, k) ==
    [ d EXCEPT !.got = @ \o Tail(TokioIoRead(d.pending, k)),
               !.pending = SubSeq(@, k + 1, Len(@)) ]

\* main.rs:112: one read of k bytes from the source of a direction and the
\* write of those bytes to its sink
Transfer(d, k) ==
    [ d EXCEPT !.got = @ \o TokioIoRead(d.pending, k),
               !.pending = SubSeq(@, k + 1, Len(@)) ]

\* main.rs:112: copy_bidirectional moves bytes from the client to the backend
CopyClientToBackend(c, k) ==
    /\ Running
    /\ bridge[c] = "copying"
    /\ stream[c].c2b.copy = "copying"
    /\ k \in 1..Len(stream[c].c2b.pending)
    /\ stream' = [ stream EXCEPT ![c].c2b = Transfer(@, k) ]
    /\ UNCHANGED << extractVars, args, main, task, pc, inbound, req, captured, out,
                    resp, delivered, fail, bridge, csock, nreq, nbytes, started >>

\* main.rs:112: copy_bidirectional moves bytes from the backend to the client
CopyBackendToClient(c, k) ==
    /\ Running
    /\ bridge[c] = "copying"
    /\ stream[c].b2c.copy = "copying"
    /\ k \in 1..Len(stream[c].b2c.pending)
    /\ stream' = [ stream EXCEPT ![c].b2c = Transfer(@, k) ]
    /\ UNCHANGED << extractVars, args, main, task, pc, inbound, req, captured, out,
                    resp, delivered, fail, bridge, csock, nreq, nbytes, started >>

\* The bridge task is over: both streams are dropped
BridgeEnds(c, how) ==
    /\ bridge' = [ bridge EXCEPT ![c] = how ]
    /\ csock' = [ csock EXCEPT ![c] = "closed" ]
    /\ out' = [ out EXCEPT ![c] = NoOut ]
    /\ stream' = [ stream EXCEPT ![c] = NoStream ]

\* main.rs:112-113: a direction reads end-of-stream after everything before
\* it was copied; copy_bidirectional shuts down the sink of that direction
\* and goes on with the other direction; it returns when both are done
CopyEof(c, dir) ==
    /\ Running
    /\ bridge[c] = "copying"
    /\ stream[c][dir].copy = "copying"
    /\ stream[c][dir].eof
    /\ stream[c][dir].pending = << >>
    /\ IF \A e \in { "c2b", "b2c" } \ { dir } : stream[c][e].copy = "done"
       THEN BridgeEnds(c, "done")
       ELSE /\ stream' = [ stream EXCEPT ![c][dir].copy = "done" ]
            /\ UNCHANGED << bridge, csock, out >>
    /\ UNCHANGED << extractVars, args, main, task, pc, inbound, req, captured,
                    resp, delivered, fail, nreq, nbytes, started >>

\* main.rs:112-114: a read or a write fails, copy_bidirectional returns the
\* error and expect() panics in the bridge task
BridgeIoError(c) ==
    /\ Running
    /\ bridge[c] = "copying"
    /\ BridgeEnds(c, "panicked")
    /\ UNCHANGED << extractVars, args, main, task, pc, inbound, req, captured,
                    resp, delivered, fail, nreq, nbytes, started >>

---------------------------------------------------------------------------
(* Specifications *)

\* what happens on connection c, payload apart
ControlStep(c) ==
    \/ Accept(c)
    \/ \E r \in Requests : Dispatch(c, r)
    \/ ConnectOk(c)
    \/ ConnectFail(c)
    \/ HandshakeOk(c)
    \/ HandshakeFail(c)
    \/ \E rsp \in Responses : SendOk(c, rsp)
    \/ SendFail(c)
    \/ UpgradeOk(c)
    \/ UpgradeFail(c)
    \/ Respond(c)
    \/ RespondFail(c)
    \/ Close(c)
    \/ BridgeStart(c)
    \/ BridgeHandoffFail(c)
    \/ ClientShutdown(c)
    \/ BackendShutdown(c)
    \/ \E dir \in { "c2b", "b2c" } : CopyEof(c, dir)
    \/ BridgeIoError(c)

\* the payload of the tunnel of connection c
PayloadStep(c) ==
    \/ \E b \in Bytes : ClientWrite(c, b)
    \/ \E b \in Bytes : BackendWrite(c, b)
    \/ \E k \in 1..MaxBytes : CopyClientToBackend(c, k)
    \/ \E k \in 1..MaxBytes : CopyBackendToClient(c, k)

Next ==
    \/ \E c \in Conns : ControlStep(c)
    \/ AcceptError
    \/ Signal

NextOne ==
    \/ ControlStep(1)
    \/ PayloadStep(1)
    \/ AcceptError
    \/ Signal

\* the proxy under the default configuration: the accept loop, the
\* connection tasks and the bridges, with no payload in the tunnels
Spec == Init /\ [][Next]_vars

InitExtract ==
    /\ InitProxy
    /\ args = DefaultArgs
    /\ hostParts \in HostPartsInputs
    /\ hostArg = Assemble(hostParts)
    /\ extracted = NotExtracted

NextExtract == ExtractDomain

\* extract_domain applied to every generated Host value
SpecExtract == InitExtract /\ [][NextExtract]_vars

InitOne ==
    /\ InitProxy
    /\ args \in ArgsInputs
    /\ hostArg = << >>
    /\ hostParts = NoParts
    /\ extracted = NotExtracted

\* one connection in full: under each configuration, with the bytes of its
\* tunnel
SpecOne == InitOne /\ [][NextOne]_vars

---------------------------------------------------------------------------
(* The grammar of section 4.1 of the specification, read off the string by *)
(* splitting it, for stating what extract_domain is expected to return     *)

GrammarLabel(p) ==
    /\ Len(p) >= 1
    /\ AllIn(p, 1, Len(p), AlNumHyphen)
    /\ p[1] # "-"
    /\ p[Len(p)] # "-"

GrammarGroup(p) == Len(p) \in 1..3 /\ AllIn(p, 1, Len(p), Digits)

GrammarPort(p) == Len(p) >= 1 /\ AllIn(p, 1, Len(p), Digits)

WithoutPort(s) == SplitOn(s, ":")[1]

InGrammar(s) ==
    LET hp == SplitOn(s, ":")
        segs == SplitOn(hp[1], ".")
        n == Len(segs)
    IN  /\ Len(hp) \in { 1, 2 }
        /\ Len(hp) = 2 => GrammarPort(hp[2])
        /\ n >= 7
        /\ segs[n] = << "i","o" >>
        /\ segs[n - 1] = << "n","i","p" >>
        /\ \A i \in (n - 5)..(n - 2) : GrammarGroup(segs[i])
        /\ \A i \in 1..(n - 6) : GrammarLabel(segs[i])

RECURSIVE JoinDots(_)
JoinDots(ps) ==
    IF ps = << >> THEN << >> ELSE Head(ps) \o << "." >> \o JoinDots(Tail(ps))

\* the labels of a string of the grammar, each with its dot
LabelsOf(s) ==
    LET segs == SplitOn(WithoutPort(s), ".")
    IN  JoinDots(SubSeq(segs, 1, Len(segs) - 6))

---------------------------------------------------------------------------
(* Claims *)

Protocols == { "websocket", "h2c" }

\* the request or response with headers h names protocol p in an upgrade
Names(h, p) == HasUpgradeToken(h.connection) /\ h.upgrade = Some(p)

IsErrorStatus(st) == st >= 400

CrashedTask(c) == task[c] \in { "panicked", "failed" }

\* C1: the bridge is started for a request only if the request offered an
\* upgrade to a protocol P, the response status is 101 and the response's
\* Upgrade header names the same P.  (Stated at the moment proxy() returns
\* with the bridge spawned.)
C1_BridgeOnlyOnAgreedUpgrade ==
    \A c \in Conns :
        (bridge[c] = "waiting" /\ pc[c] = "respond") =>
            \E p \in Protocols :
                /\ Names(Unwrap(inbound[c]), p)
                /\ Unwrap(resp[c]).status = SWITCHING_PROTOCOLS
                /\ Names(Unwrap(resp[c]), p)

\* the request offers one protocol and the 101 names another
UpgradeMismatch(c) ==
    /\ IsSome(inbound[c])
    /\ IsSome(resp[c])
    /\ Unwrap(resp[c]).status = SWITCHING_PROTOCOLS
    /\ \E p \in Protocols, q \in Protocols :
          /\ p # q
          /\ Names(Unwrap(inbound[c]), p)
          /\ Names(Unwrap(resp[c]), q)

\* C2: when the client asks for one protocol and the backend answers 101
\* naming another, no bridge is started and what proxy() returns for the
\* client is an error, not the backend's 101.
C2_MismatchIsError ==
    \A c \in Conns :
        (pc[c] = "respond" /\ UpgradeMismatch(c)) =>
            /\ bridge[c] = "none"
            /\ IsErrorStatus(Unwrap(resp[c]).status)

\* C3: a request whose Host is missing or outside the pattern opens no
\* backend connection and gets an HTTP error response; its task does not
\* crash.
C3_UnroutableGetsErrorResponse ==
    \A c \in Conns :
        fail[c] = "host" =>
            /\ out[c].conn = "none"
            /\ ~CrashedTask(c)
            /\ delivered[c] # << >>
            /\ IsErrorStatus(delivered[c][Len(delivered[c])])

BackendFailures == { "connect", "handshake", "send", "upgrade" }

\* C4: every backend failure (connect, handshake, send/receive, backend
\* handoff) is turned into a 502 response to the client; proxy() neither
\* panics nor returns an error to the codec.
C4_BackendFailureGets502 ==
    \A c \in Conns :
        fail[c] \in BackendFailures =>
            /\ ~CrashedTask(c)
            /\ delivered[c] # << >>
            /\ delivered[c][Len(delivered[c])] = 502

\* connection c, or its tunnel, fails in this step
FailsNow(c) ==
    \/ ~CrashedTask(c) /\ task'[c] \in { "panicked", "failed" }
    \/ bridge[c] # "panicked" /\ bridge'[c] = "panicked"

\* everything the model keeps for connection d
ConnState(d) ==
    << task[d], pc[d], inbound[d], req[d], captured[d], out[d], resp[d],
       delivered[d], fail[d], bridge[d], csock[d], stream[d] >>

\* C5: a failure while handling a request or running a bridge never ends
\* the process nor stops the accept loop, and touches no other connection.
C5_FailureIsConfined ==
    [][ \A c \in Conns :
          FailsNow(c) =>
              /\ main' = "accepting"
              /\ \A d \in Conns \ { c } : ConnState(d)' = ConnState(d) ]_vars

\* a crashed task, a panicked bridge, and the accept loop still running
C5_Witness ==
    /\ main = "accepting"
    /\ \E c \in Conns, d \in Conns :
          /\ c # d
          /\ task[c] = "panicked"
          /\ bridge[d] = "panicked"

\* C6: whatever the other connections are doing (mid-bridge, waiting on the
\* backend, failed), the accept loop can take the next connection and every
\* step of a request on a connection can be taken.
C6_NoConnectionBlocksAnother ==
    Running =>
        \A c \in Conns :
            /\ (task[c] = "none" /\ \A d \in Conns : d < c => task[d] # "none")
                  => ENABLED Accept(c)
            /\ (task[c] = "serving" /\ pc[c] = "idle" /\ nreq < MaxReqs)
                  => ENABLED (\E r \in Requests : Dispatch(c, r))
            /\ pc[c] = "connect" => ENABLED ConnectOk(c)
            /\ pc[c] = "handshake" => ENABLED HandshakeOk(c)
            /\ pc[c] = "send" => ENABLED (\E rsp \in Responses : SendOk(c, rsp))
            /\ pc[c] = "upgrade" => ENABLED UpgradeOk(c)
            /\ pc[c] = "respond" => ENABLED Respond(c)

\* a connection accepted later has had its request answered while an
\* earlier one is mid-bridge
C6_Witness ==
    \E c \in Conns, d \in Conns :
        /\ c < d
        /\ bridge[c] = "copying"
        /\ delivered[d] = << 200 >>

\* C7: the request sent to the backend carries exactly one Host header, the
\* matched labels followed by the configured suffix with no separator, and
\* goes to the configured backend host and port.
C7_OneRewrittenHost ==
    \A c \in Conns :
        IsSome(out[c].sent) =>
            /\ Unwrap(out[c].sent).host =
                  << LabelsOf(Unwrap(inbound[c]).host[1]) \o args.domain_suffix >>
            /\ out[c].to = Some(<< args.backend_host, args.backend_port >>)

\* a request that came with two Host headers has been sent on
C7_Witness ==
    \E c \in Conns :
        /\ IsSome(out[c].sent)
        /\ Len(Unwrap(inbound[c]).host) = 2

\* C8: on every value of the grammar, with or without a port,
\* extract_domain returns exactly the labels, each with its dot, and the
\* same as on the value without its port.
C8_ExtractReturnsLabels ==
    (extracted.done /\ InGrammar(hostArg)) =>
        /\ extracted.value = Some(LabelsOf(hostArg))
        /\ extracted.value = extract_domain(WithoutPort(hostArg))

\* a value of the grammar with two labels and a port has been matched
C8_Witness ==
    /\ extracted.done
    /\ InGrammar(hostArg)
    /\ hostParts.port # << >>
    /\ Len(SplitOn(LabelsOf(hostArg), ".")) = 3

\* C9: on every value outside the grammar extract_domain returns None.
C9_OutsideGrammarIsNone ==
    (extracted.done /\ ~InGrammar(hostArg)) => extracted.value = None

Dirs == { "c2b", "b2c" }

\* the direction opposite to dir
Opposite(dir) == IF dir = "c2b" THEN "b2c" ELSE "c2b"

\* C11: the bridge stops as soon as one direction reaches end-of-stream or
\* fails: once a direction is over, no byte is copied in the other one.
C11_NoCopyAfterFirstClose ==
    [][ \A c \in Conns : \A dir \in Dirs :
          stream[c][dir].copy = "done" =>
              Len(stream'[c][Opposite(dir)].got) <= Len(stream[c][Opposite(dir)].got) ]_vars

\* connection c is accepted and its task spawned in this step
AcceptedNow(c) == task[c] # "serving" /\ task'[c] = "serving"

\* C12: once a termination signal has been observed, main() accepts no
\* connection and spawns no connection task.
C12_NoAcceptAfterSignal ==
    [][ main = "stoppedBySignal" =>
            /\ main' = main
            /\ \A c \in Conns : ~AcceptedNow(c) ]_vars

\* the signal has been observed and the run is over
C12_Witness ==
    /\ main = "stoppedBySignal"
    /\ \A c \in Conns : task[c] = "dropped" /\ csock[c] = "closed"

\* the codec of connection c calls proxy() for a request in this step
StartedNow(c) == started'[c] = started[c] + 1

\* connection c holds a backend connection
HasBackend(c) == out[c].conn # "none"

\* C13: every request that reaches the connect step gets a backend
\* connection of its own: the one a connection holds was opened by the
\* request now handled on it (or last handled, once it is in a bridge), it
\* carries that request only, no two connections hold the same one, and
\* once proxy() has returned it is gone or with the one bridge of that
\* request.
C13_FreshBackendPerRequest ==
    /\ [](\A c \in Conns :
            /\ HasBackend(c) => out[c].id = << c, started[c] >>
            /\ \A d \in Conns \ { c } :
                  (HasBackend(c) /\ HasBackend(d)) => out[c].id # out[d].id
            /\ (HasBackend(c) /\ pc[c] = "idle") =>
                  /\ out[c].conn = "upgraded"
                  /\ bridge[c] \in { "waiting", "copying" }
            /\ ~HasBackend(c) => out[c] = NoOut
            /\ IsSome(out[c].sent) => out[c].sent = req[c])
    /\ [][ \A c \in Conns :
            /\ (pc[c] = "connect" /\ pc'[c] = "handshake") =>
                  /\ out[c] = NoOut
                  /\ out'[c].id = << c, started[c] >>
                  /\ out'[c].sent = None
            /\ StartedNow(c) => out[c] = NoOut
            /\ (out'[c].id # out[c].id /\ out'[c].id # None) => pc[c] = "connect" ]_vars

\* the first request of a connection is out on the backend connection it
\* opened while the one another request opened is in a bridge
C13_Witness ==
    \E c \in Conns, d \in Conns :
        /\ c # d
        /\ bridge[c] = "copying"
        /\ out[c].id = << c, 1 >>
        /\ pc[d] = "send"
        /\ out[d].id = << d, 1 >>

\* a response is written to the client of connection c in this step
RespondedNow(c) == Len(delivered'[c]) = Len(delivered[c]) + 1

\* C14: on one connection the handler of a request starts only when every
\* earlier request of the connection has had its response, and the n-th
\* response written is the response to the n-th request.
C14_RequestsInArrivalOrder ==
    /\ [](\A c \in Conns :
            /\ Len(delivered[c]) <= started[c]
            /\ started[c] <= Len(delivered[c]) + 1)
    /\ [][ \A c \in Conns :
            /\ StartedNow(c) =>
                  /\ pc[c] = "idle"
                  /\ inbound[c] = None
                  /\ resp[c] = None
                  /\ started[c] = Len(delivered[c])
            /\ RespondedNow(c) =>
                  /\ Len(delivered'[c]) = started[c]
                  /\ delivered'[c][started[c]] = Unwrap(resp[c]).status ]_vars

\* the second request of a connection is being handled after the first
\* one was answered
C14_Witness ==
    \E c \in Conns :
        /\ started[c] = 2
        /\ delivered[c] = << 200 >>
        /\ pc[c] = "send"

\* proxy() on connection c holds a 101 that leads to no bridge: the
\* protocols differ, or the request came without an OnUpgrade
RefusedUpgrade(c) ==
    /\ IsSome(resp[c])
    /\ IsSome(captured[c])
    /\ Unwrap(resp[c]).status = SWITCHING_PROTOCOLS
    /\ \/ Unwrap(captured[c]).request_upgrade_type # UpgradeType[Headers(Unwrap(resp[c]))]
       \/ ~Unwrap(captured[c]).request_upgraded

\* C15: when the backend answers 101 but the protocols differ or the
\* request has no handoff, proxy() returns at once with the backend's 101
\* as its response, the codec can write it, and no task waits on a handoff
\* for that request.
C15_RefusedUpgradeStillReturns ==
    /\ [](\A c \in Conns :
            RefusedUpgrade(c) =>
                /\ pc[c] = "respond"
                /\ bridge[c] = "none"
                /\ ENABLED Respond(c))
    /\ [][ \A c \in Conns :
            (RefusedUpgrade(c) /\ RespondedNow(c)) =>
                /\ delivered'[c][Len(delivered'[c])] = SWITCHING_PROTOCOLS
                /\ pc'[c] = "idle"
                /\ bridge'[c] = "none"
                /\ out'[c] = NoOut
                /\ csock'[c] = "closed" ]_vars

\* a 101 that led to no bridge has been written to the client, and nothing
\* is left of the request
C15_Witness ==
    \E c \in Conns :
        /\ delivered[c] = << SWITCHING_PROTOCOLS >>
        /\ bridge[c] = "none"
        /\ task[c] = "done"
        /\ pc[c] = "idle"

\* C16: whenever the request is with the backend's sender, its upgrade
\* offer and its OnUpgrade have been captured, as the client's request had
\* them, and the request sent no longer carries the OnUpgrade.
C16_CaptureBeforeSend ==
    /\ [](\A c \in Conns :
            (IsSome(out[c].sent) \/ pc[c] \in { "send", "upgrade", "respond" }) =>
                /\ IsSome(captured[c])
                /\ Unwrap(captured[c]).request_upgrade_type =
                      get_upgrade_type(Headers(Unwrap(inbound[c])))
                /\ Unwrap(captured[c]).request_upgraded = Unwrap(inbound[c]).onUpgrade
                /\ IsSome(out[c].sent) => ~Unwrap(out[c].sent).onUpgrade)
    /\ [][ \A c \in Conns :
            (out'[c].sent # out[c].sent /\ IsSome(out'[c].sent)) =>
                /\ IsSome(captured[c])
                /\ captured'[c] = captured[c] ]_vars

\* a websocket offer that came with an OnUpgrade is with the sender
C16_Witness ==
    \E c \in Conns :
        /\ IsSome(out[c].sent)
        /\ Unwrap(captured[c]).request_upgrade_type = Some("websocket")
        /\ Unwrap(captured[c]).request_upgraded

\* the bridge of connection c holds both raw streams: the backend's
\* connection driver has given up its socket, and the server codec has
\* completed and given up the client's
BothHandedOver(c) ==
    /\ out[c].conn = "upgraded"
    /\ csock[c] = "bridge"
    /\ task[c] = "done"

\* C17: the bridge copies only once both handoffs have completed; no byte
\* reaches either side while an HTTP codec still controls its socket.
C17_CopyOnlyAfterBothHandoffs ==
    \A c \in Conns :
        /\ bridge[c] = "copying" => BothHandedOver(c)
        /\ \A dir \in Dirs :
              /\ stream[c][dir].copy # "idle" => BothHandedOver(c)
              /\ stream[c][dir].got # << >> => BothHandedOver(c)

\* a bridge that holds both streams has copied bytes in both directions and
\* has one more to copy
C17_Witness ==
    \E c \in Conns :
        /\ BothHandedOver(c)
        /\ stream[c].b2c.got # << >>
        /\ stream[c].c2b.got # << >>
        /\ stream[c].c2b.pending # << >>

\* the client socket of connection c has left the server codec for the
\* bridge
Upgraded(c) == csock[c] \in { "handoff", "bridge" }

\* C18: after a successful upgrade the codec of the connection calls
\* proxy() no more.
C18_NoRequestAfterUpgrade ==
    /\ [](\A c \in Conns :
            Upgraded(c) =>
                /\ task[c] = "done"
                /\ pc[c] = "idle"
                /\ ~ENABLED (\E r \in Requests : Dispatch(c, r)))
    /\ [][ \A c \in Conns :
            Upgraded(c) => (~StartedNow(c) /\ pc'[c] = "idle") ]_vars

\* a bridge is copying on a connection that had one request, while the run
\* could still take a request
C18_Witness ==
    \E c \in Conns :
        /\ csock[c] = "bridge"
        /\ bridge[c] = "copying"
        /\ started[c] = 1
        /\ nreq < MaxReqs

\* the ways main() is, or ends, in order
MainStates == { "accepting", "stoppedBySignal", "stoppedByAcceptError" }

\* C19: when accept() fails the loop stops, nothing is accepted any more,
\* and main() returns normally: it neither panics nor aborts.
C19_AcceptErrorStopsInOrder ==
    /\ [](main \in MainStates)
    /\ [][ main = "stoppedByAcceptError" =>
              /\ main' = main
              /\ \A c \in Conns : ~AcceptedNow(c) ]_vars

\* accept() has failed and main() has returned
C19_Witness ==
    /\ main = "stoppedByAcceptError"
    /\ \A c \in Conns : task[c] = "dropped" /\ bridge[c] = "dropped"

\* proxy() on connection c holds a 101 that passes the three tests of
\* main.rs:92-96
MatchingUpgrade(c) ==
    /\ IsSome(resp[c])
    /\ IsSome(captured[c])
    /\ UpgradeAgreed(Unwrap(captured[c]), Unwrap(resp[c]))

\* C20: in a matching upgrade proxy() returns the 101 only with the
\* backend's stream obtained and the bridge spawned, and without waiting
\* for the client's handoff, which completes only once the 101 has been
\* returned and written.
C20_101AfterBackendHandoff ==
    /\ [](\A c \in Conns :
            /\ (MatchingUpgrade(c) /\ pc[c] = "upgrade") =>
                  /\ csock[c] = "codec"
                  /\ bridge[c] = "none"
                  /\ ENABLED UpgradeOk(c)
            /\ (MatchingUpgrade(c) /\ pc[c] = "respond") =>
                  /\ out[c].conn = "upgraded"
                  /\ bridge[c] = "waiting"
                  /\ csock[c] = "codec"
            /\ Upgraded(c) =>
                  /\ delivered[c] # << >>
                  /\ delivered[c][Len(delivered[c])] = SWITCHING_PROTOCOLS
                  /\ out[c].conn = "upgraded")
    /\ [][ \A c \in Conns :
            /\ (MatchingUpgrade(c) /\ RespondedNow(c)) =>
                  /\ out[c].conn = "upgraded"
                  /\ csock'[c] = "handoff"
            /\ (~Upgraded(c) /\ Upgraded(c)') => RespondedNow(c) ]_vars

\* the 101 of a matching upgrade has been written and the client's handoff
\* is there for the bridge, which has the backend's stream and has not
\* started to copy
C20_Witness ==
    \E c \in Conns :
        /\ csock[c] = "handoff"
        /\ bridge[c] = "waiting"
        /\ out[c].conn = "upgraded"
        /\ delivered[c] = << SWITCHING_PROTOCOLS >>

=============================================================================
